---- MODULE Spec2Model ----
(***************************************************************************)
(* Animation state engine of the AI avatar (src/src/components/AIAvatar.tsx)*)
(* and its demo producer (src/src/App.tsx).                                *)
(*                                                                         *)
(* A React render together with the effects it triggers is one atomic step:*)
(* the props or state change, the cleanups of the effects whose            *)
(* dependencies changed, the effect bodies in declaration order, the state *)
(* updates they queue and the re-render those updates cause.  Timers are   *)
(* untimed: a pending timer may fire at any moment.                        *)
(*                                                                         *)
(* A token is a sequence of characters; a character is a string of length  *)
(* one.  Indices are 0-based in the source and 1-based in sequences, so    *)
(* textChunks[chunkIndex] of the source is textChunks[chunkIndex + 1].     *)
(***************************************************************************)
EXTENDS Integers, Sequences, FiniteSets, TLC

VARIABLES
    \* props of AIAvatar, state of App
    textChunks, isSpeaking, eyeEmotion,
    \* state of AIAvatar
    currentViseme, isBlinking, isDistracted, chunkIndex,
    \* timers of AIAvatar
    visemeTimerRef, blinkIntervalRef, blinkOffTimer,
    distractionIntervalRef, distractionOffTimer,
    mounted,
    \* the x that leftEyeShineControls and rightEyeShineControls have given
    \* the eye shine circle subscribed to them, in 1/100000 of a unit of the
    \* view box; 0 while no circle is rendered
    leftEyeShineControls, rightEyeShineControls,
    \* milliseconds since the pending blink timer was set
    blinkClock,
    \* milliseconds since the pending distraction timer was set
    distractionClock,
    \* state and refs of App
    tokensToStreamRef, currentTokenRef, lastTypedTextRef,
    streamTimerRef, typingTimeoutRef, streamingSpeed, inputText,
    \* the timers set by setTimeout and neither fired nor cleared: those of
    \* the viseme effect, those of handleTextChange and those of
    \* streamNextToken
    visemeTimers, typingTimers, streamTimers

avatarVars == <<currentViseme, chunkIndex, visemeTimerRef, visemeTimers>>
gazeVars == <<leftEyeShineControls, rightEyeShineControls>>
idleVars == <<isBlinking, isDistracted, blinkIntervalRef, blinkOffTimer,
              distractionIntervalRef, distractionOffTimer, gazeVars,
              blinkClock, distractionClock>>
propVars == <<textChunks, isSpeaking>>
appVars == <<tokensToStreamRef, currentTokenRef, lastTypedTextRef,
             streamTimerRef, typingTimeoutRef, typingTimers, streamingSpeed,
             inputText, streamTimers>>
vars == <<textChunks, isSpeaking, eyeEmotion, currentViseme, isBlinking,
          isDistracted, chunkIndex, visemeTimerRef, blinkIntervalRef,
          blinkOffTimer, distractionIntervalRef, distractionOffTimer, mounted,
          tokensToStreamRef, currentTokenRef, lastTypedTextRef,
          streamTimerRef, typingTimeoutRef, visemeTimers, typingTimers,
          streamingSpeed, leftEyeShineControls, rightEyeShineControls,
          blinkClock, inputText, distractionClock, streamTimers>>

----------------------------------------------------------------------------
(* Types and tables                                                        *)

Viseme == {"A", "B", "C", "D", "E", "F", "G", "H", "X"}

EyeEmotion == {"neutral", "happy", "sad", "angry", "surprised"}

\* Faulty variant of VISEME_MAP: u has the open shape of a.
VISEME_MAP_UOpen ==
    ("a" :> "A") @@ ("b" :> "B") @@ ("c" :> "C") @@ ("d" :> "D") @@
    ("e" :> "E") @@ ("f" :> "F") @@ ("g" :> "G") @@ ("h" :> "H") @@
    ("i" :> "C") @@ ("j" :> "H") @@ ("k" :> "G") @@ ("l" :> "C") @@
    ("m" :> "B") @@ ("n" :> "C") @@ ("o" :> "H") @@ ("p" :> "B") @@
    ("q" :> "G") @@ ("r" :> "C") @@ ("s" :> "C") @@ ("t" :> "C") @@
    ("u" :> "A") @@ ("v" :> "F") @@ ("w" :> "H") @@ ("x" :> "C") @@
    ("y" :> "C") @@ ("z" :> "C") @@ (" " :> "X") @@ ("." :> "X") @@
    ("," :> "X") @@ ("?" :> "D") @@ ("!" :> "D")

VISEME_MAP ==
    ("a" :> "A") @@ ("b" :> "B") @@ ("c" :> "C") @@ ("d" :> "D") @@
    ("e" :> "E") @@ ("f" :> "F") @@ ("g" :> "G") @@ ("h" :> "H") @@
    ("i" :> "C") @@ ("j" :> "H") @@ ("k" :> "G") @@ ("l" :> "C") @@
    ("m" :> "B") @@ ("n" :> "C") @@ ("o" :> "H") @@ ("p" :> "B") @@
    ("q" :> "G") @@ ("r" :> "C") @@ ("s" :> "C") @@ ("t" :> "C") @@
    ("u" :> "H") @@ ("v" :> "F") @@ ("w" :> "H") @@ ("x" :> "C") @@
    ("y" :> "C") @@ ("z" :> "C") @@ (" " :> "X") @@ ("." :> "X") @@
    ("," :> "X") @@ ("?" :> "D") @@ ("!" :> "D")

\* String.prototype.toLowerCase on one character: the capitals map to their
\* small letters, every other modelled character to itself.  A character
\* outside ASCII is written by its code point: U+00C9 and U+00E9 are the
\* capital and the small e with acute, U+212A is the Kelvin sign, whose
\* lowercase form is k, and U+0130 is the capital I with a dot, whose lowercase
\* form is the two code units i, U+0307.
UpperToLower ==
    ("A" :> "a") @@ ("B" :> "b") @@ ("C" :> "c") @@ ("D" :> "d") @@
    ("E" :> "e") @@ ("F" :> "f") @@ ("G" :> "g") @@ ("H" :> "h") @@
    ("I" :> "i") @@ ("J" :> "j") @@ ("K" :> "k") @@ ("L" :> "l") @@
    ("M" :> "m") @@ ("N" :> "n") @@ ("O" :> "o") @@ ("P" :> "p") @@
    ("Q" :> "q") @@ ("R" :> "r") @@ ("S" :> "s") @@ ("T" :> "t") @@
    ("U" :> "u") @@ ("V" :> "v") @@ ("W" :> "w") @@ ("X" :> "x") @@
    ("Y" :> "y") @@ ("Z" :> "z") @@ ("U+00C9" :> "U+00E9") @@
    ("U+212A" :> "k") @@ ("U+0130" :> "i U+0307")

toLowerCase(c) == IF c \in DOMAIN UpperToLower THEN UpperToLower[c] ELSE c

\* Faulty variant of Resolve: no fallback for a character the table lacks.
ResolveNoFallback(chunk) ==
    LET firstChar == toLowerCase(chunk[1])
    IN  IF firstChar \in DOMAIN VISEME_MAP
        THEN VISEME_MAP[firstChar]
        ELSE "undefined"

\* Faulty variant of Resolve: the character is looked up as it is.
ResolveNoLowerCase(chunk) ==
    LET firstChar == chunk[1]
    IN  IF firstChar \in DOMAIN VISEME_MAP THEN VISEME_MAP[firstChar] ELSE "X"

\* const firstChar = chunk[0].toLowerCase(); VISEME_MAP[firstChar] || 'X'
Resolve(chunk) ==
    LET firstChar == toLowerCase(chunk[1])
    IN  IF firstChar \in DOMAIN VISEME_MAP THEN VISEME_MAP[firstChar] ELSE "X"

----------------------------------------------------------------------------
(* Timers                                                                  *)

nextChunkDelay == 100

\* A pending speech timer carries the values its callback closed over and
\* the time left until it fires.
NoTimer == [pending |-> FALSE, chunkIndex |-> 0, length |-> 0, remaining |-> 0]

VisemeTimer(ci, chunks) ==
    [pending |-> TRUE, chunkIndex |-> ci, length |-> Len(chunks),
     remaining |-> nextChunkDelay]

\* Faulty variant of clearTimeout: the timer the ref holds is left to fire.
clearTimeoutNoop(timer, n) == n

\* if (ref.current) clearTimeout(ref.current), on the number n of pending
\* timers of the family: the timer the ref holds is cancelled if it has not
\* fired yet.
clearTimeout(timer, n) == IF timer.pending THEN n - 1 ELSE n

----------------------------------------------------------------------------
(* Effects of AIAvatar.  An effect is an operator from the values of the   *)
(* render it runs in to the state it leaves.                               *)

\* Faulty variant of ProcessChunks: the tick is scheduled inside the test
\* for a non-empty token, so an empty token stops the cadence.
ProcessChunksNoTickOnEmpty(chunks, ci, cv) ==
    IF ci < Len(chunks) /\ Len(chunks[ci + 1]) > 0
    THEN [currentViseme |-> Resolve(chunks[ci + 1]),
          visemeTimerRef |-> VisemeTimer(ci, chunks)]
    ELSE [currentViseme |-> cv, visemeTimerRef |-> NoTimer]

\* processChunks: publish the viseme of the token at the cursor and schedule
\* the tick; past the end of the buffer it does nothing.
ProcessChunks(chunks, ci, cv) ==
    IF ci < Len(chunks)
    THEN [currentViseme |-> IF Len(chunks[ci + 1]) > 0
                            THEN Resolve(chunks[ci + 1])
                            ELSE cv,
          visemeTimerRef |-> VisemeTimer(ci, chunks)]
    ELSE [currentViseme |-> cv, visemeTimerRef |-> NoTimer]

\* Faulty variant of VisemeEffect: the guard forgets !isSpeaking.
VisemeEffectNoSpeakingGuard(chunks, speaking, ci, cv) ==
    IF Len(chunks) = 0
    THEN [currentViseme |-> "X", visemeTimerRef |-> NoTimer]
    ELSE ProcessChunks(chunks, ci, cv)

\* Faulty variant of VisemeEffect: the rest branch does not return, so the
\* token at the cursor is processed and a tick is scheduled while silent.
VisemeEffectNoReturn(chunks, speaking, ci, cv) ==
    IF ~speaking \/ Len(chunks) = 0
    THEN ProcessChunks(chunks, ci, "X")
    ELSE ProcessChunks(chunks, ci, cv)

\* The viseme effect, deps [textChunks, chunkIndex, isSpeaking]: clears the
\* pending timer, then rests or processes the token at the cursor.
VisemeEffect(chunks, speaking, ci, cv) ==
    IF ~speaking \/ Len(chunks) = 0
    THEN [currentViseme |-> "X", visemeTimerRef |-> NoTimer]
    ELSE ProcessChunks(chunks, ci, cv)

\* The isSpeaking effect, deps [isSpeaking].
IsSpeakingEffect(speaking, cv) == IF ~speaking THEN "X" ELSE cv

\* Faulty variant of ResetEffect: the cursor is reset only for an empty buffer.
ResetEffectOnlyWhenEmpty(chunks, speaking, ci) ==
    IF Len(chunks) = 0 THEN 0 ELSE ci

\* The chunk index reset effect, deps [textChunks, isSpeaking].
ResetEffect(chunks, speaking, ci) ==
    IF Len(chunks) = 0 \/ ~speaking THEN 0 ELSE ci

\* The pending speech timers after one run of the viseme effect that leaves
\* v: the effect first clears the timer the ref held, then processChunks may
\* set one.
VisemeTimersAfter(v, ref, n) ==
    clearTimeout(ref, n) + (IF v.visemeTimerRef.pending THEN 1 ELSE 0)

\* One commit of AIAvatar: s is its state before, the flags say which
\* dependencies changed.  The effects run in declaration order; the updates
\* they queue are applied together; a changed chunkIndex re-renders and runs
\* the viseme effect once more.
RunEffects(chunks, speaking, s, tcChanged, spChanged, ciChanged) ==
    LET cv1 == IF spChanged
               THEN IsSpeakingEffect(speaking, s.currentViseme)
               ELSE s.currentViseme
        run1 == tcChanged \/ ciChanged \/ spChanged
        v1  == IF run1
               THEN VisemeEffect(chunks, speaking, s.chunkIndex, cv1)
               ELSE [currentViseme |-> cv1, visemeTimerRef |-> s.visemeTimerRef]
        n1  == IF run1
               THEN VisemeTimersAfter(v1, s.visemeTimerRef, s.visemeTimers)
               ELSE s.visemeTimers
        ci1 == IF tcChanged \/ spChanged
               THEN ResetEffect(chunks, speaking, s.chunkIndex)
               ELSE s.chunkIndex
        v2  == IF ci1 # s.chunkIndex
               THEN VisemeEffect(chunks, speaking, ci1, v1.currentViseme)
               ELSE v1
        n2  == IF ci1 # s.chunkIndex
               THEN VisemeTimersAfter(v2, v1.visemeTimerRef, n1)
               ELSE n1
    IN  [currentViseme |-> v2.currentViseme,
         chunkIndex |-> ci1,
         visemeTimerRef |-> v2.visemeTimerRef,
         visemeTimers |-> n2]

AvatarState ==
    [currentViseme |-> currentViseme,
     chunkIndex |-> chunkIndex,
     visemeTimerRef |-> visemeTimerRef,
     visemeTimers |-> visemeTimers]

\* useState and useRef initial values
InitialAvatarState ==
    [currentViseme |-> "X", chunkIndex |-> 0, visemeTimerRef |-> NoTimer,
     visemeTimers |-> 0]

SetAvatarState(s) ==
    /\ currentViseme' = s.currentViseme
    /\ chunkIndex' = s.chunkIndex
    /\ visemeTimerRef' = s.visemeTimerRef
    /\ visemeTimers' = s.visemeTimers

----------------------------------------------------------------------------
(* Bounds and inputs of the engine driven by an arbitrary parent           *)

MaxLen == 3

Tokens == {<<"h">>, <<"i">>}

ChunkSeqs == UNION {[1..n -> Tokens] : n \in 0..MaxLen}

----------------------------------------------------------------------------
(* Blink and distraction cycles of AIAvatar                                *)

\* SVG constants
eyeOffsetX == 20
eyeOffsetY == 0 - 8
eyeWidth == 18
eyeHeight == 24

\* Values of Math.random(), in thousandths: the least and the greatest.
RandomSamples == {0, 999}

\* -distEyeWidth * (0.22 + Math.random() * 0.06), in 1/100000
leftOffset(random) == 0 - eyeWidth * (22000 + random * 6)

\* -distEyeWidth * (0.20 + Math.random() * 0.08), in 1/100000
rightOffset(random) == 0 - eyeWidth * (20000 + random * 8)

\* The eye shine circles are rendered, and subscribed to the animation
\* controls, only while the component is mounted and not blinking.
EyeShineRendered(blinking) == mounted /\ ~blinking

\* controls.start({ x }) of both controls: animates the subscribed circles;
\* with no circle rendered there is nothing to animate.
StartEyeShine(left, right) ==
    IF EyeShineRendered(isBlinking)
    THEN leftEyeShineControls' = left /\ rightEyeShineControls' = right
    ELSE UNCHANGED gazeVars

\* A render with another isBlinking removes the circles or renders new ones:
\* a new circle starts at x = 0, whatever the controls animated before.
RenderEyeShine(blinking) ==
    IF EyeShineRendered(blinking) = EyeShineRendered(isBlinking)
    THEN UNCHANGED gazeVars
    ELSE leftEyeShineControls' = 0 /\ rightEyeShineControls' = 0

\* scheduleNextBlink: clear the timer the ref holds, set a new one.
scheduleNextBlink == blinkIntervalRef' = TRUE /\ blinkClock' = 0

\* scheduleNextDistraction: clear the timer the ref holds, set a new one.
scheduleNextDistraction ==
    distractionIntervalRef' = TRUE /\ distractionClock' = 0

\* A state update of an unmounted component is dropped.
SetIsBlinking(b) ==
    /\ isBlinking' = IF mounted THEN b ELSE isBlinking
    /\ RenderEyeShine(b)

SetIsDistracted(b) == isDistracted' = IF mounted THEN b ELSE isDistracted

\* The timer of blinkIntervalRef fires: the blink starts and an untracked
\* 150 ms timer is set to end it.
BlinkTimerFires ==
    /\ blinkIntervalRef
    /\ blinkIntervalRef' = FALSE
    /\ SetIsBlinking(TRUE)
    /\ blinkOffTimer' = TRUE
    /\ blinkClock' = 0
    /\ UNCHANGED <<propVars, eyeEmotion, avatarVars, isDistracted,
                   distractionIntervalRef, distractionOffTimer,
                   distractionClock, mounted, appVars>>

\* Faulty variant of BlinkOffTimerFires: the next blink is not scheduled.
BlinkOffTimerFiresNoReschedule ==
    /\ blinkOffTimer
    /\ blinkOffTimer' = FALSE
    /\ SetIsBlinking(FALSE)
    /\ UNCHANGED <<propVars, eyeEmotion, avatarVars, isDistracted,
                   blinkIntervalRef, blinkClock, distractionIntervalRef,
                   distractionOffTimer, distractionClock, mounted, appVars>>

\* The untracked 150 ms timer fires: the blink ends and the next is scheduled.
BlinkOffTimerFires ==
    /\ blinkOffTimer
    /\ blinkOffTimer' = FALSE
    /\ SetIsBlinking(FALSE)
    /\ scheduleNextBlink
    /\ UNCHANGED <<propVars, eyeEmotion, avatarVars, isDistracted,
                   distractionIntervalRef, distractionOffTimer,
                   distractionClock, mounted, appVars>>

\* The timer of distractionIntervalRef fires: the distraction starts, both
\* controls are started with offsets drawn one after the other, and an
\* untracked timer is set to end it.
DistractionTimerFires ==
    /\ distractionIntervalRef
    /\ distractionIntervalRef' = FALSE
    /\ SetIsDistracted(TRUE)
    /\ \E randomLeft, randomRight \in RandomSamples :
           StartEyeShine(leftOffset(randomLeft), rightOffset(randomRight))
    /\ distractionOffTimer' = TRUE
    /\ distractionClock' = 0
    /\ UNCHANGED <<propVars, eyeEmotion, avatarVars, isBlinking,
                   blinkIntervalRef, blinkOffTimer, blinkClock, mounted,
                   appVars>>

\* The untracked timer of the distraction's duration fires.
DistractionOffTimerFires ==
    /\ distractionOffTimer
    /\ distractionOffTimer' = FALSE
    /\ SetIsDistracted(FALSE)
    /\ StartEyeShine(0, 0)
    /\ scheduleNextDistraction
    /\ UNCHANGED <<propVars, eyeEmotion, avatarVars, isBlinking,
                   blinkIntervalRef, blinkOffTimer, blinkClock, mounted,
                   appVars>>

----------------------------------------------------------------------------
(* Geometry of the eyes.  A path is the sequence of its commands; lengths  *)
(* and coordinates are in hundredths of a unit of the view box.            *)

PathCommand(letter, numbers) == [command |-> letter, args |-> numbers]

\* The outlines of the switch of getEyePath.
EyeOutline(emotion, x, y, width, height) ==
    LET radius == (IF width < height THEN width ELSE height) \div 2
        uplifted ==
            <<PathCommand("M", <<x - width \div 2, y - (height * 2) \div 10>>),
              PathCommand("Q", <<x, y - (height * 8) \div 10,
                                 x + width \div 2, y - (height * 2) \div 10>>),
              PathCommand("Q", <<x, y + (height * 35) \div 100,
                                 x - width \div 2, y - (height * 2) \div 10>>),
              PathCommand("Z", <<>>)>>
    IN  CASE emotion = "happy" ->
               <<PathCommand("M", <<x - width \div 2, y>>),
                 PathCommand("Q", <<x - (width * 2) \div 10,
                                    y - (height * 6) \div 10,
                                    x, y - (height * 2) \div 10>>),
                 PathCommand("Q", <<x + (width * 2) \div 10,
                                    y - (height * 6) \div 10,
                                    x + width \div 2, y>>),
                 PathCommand("L", <<x - width \div 2, y>>),
                 PathCommand("Z", <<>>)>>
          [] emotion = "sad" ->
               <<PathCommand("M", <<x - width \div 2, y>>),
                 PathCommand("Q", <<x, y - (height * 5) \div 10,
                                    x + width \div 2, y>>),
                 PathCommand("Q", <<x, y + (height * 6) \div 10,
                                    x - width \div 2, y>>),
                 PathCommand("Z", <<>>)>>
          [] emotion = "angry" -> uplifted
          [] emotion = "surprised" ->
               <<PathCommand("M", <<x, y>>),
                 PathCommand("m", <<0 - radius, 0>>),
                 PathCommand("a", <<radius, radius, 0, 1, 0, radius * 2, 0>>),
                 PathCommand("a", <<radius, radius, 0, 1, 0,
                                    0 - radius * 2, 0>>)>>
          [] OTHER -> uplifted

\* Faulty variant of getEyePath: only neutral takes the larger size.
getEyePathSurprisedSmall(emotion, isLeft, blinking) ==
    LET x == (IF isLeft THEN 0 - eyeOffsetX ELSE eyeOffsetX) * 100
        y == eyeOffsetY * 100
        width == IF emotion = "neutral" THEN eyeWidth * 125 ELSE eyeWidth * 100
        height == IF emotion = "neutral"
                  THEN eyeHeight * 125 ELSE eyeHeight * 100
    IN  IF blinking
        THEN <<PathCommand("M", <<x - width \div 2, y>>),
               PathCommand("H", <<x + width \div 2>>)>>
        ELSE EyeOutline(emotion, x, y, width, height)

getEyePath(emotion, isLeft, blinking) ==
    LET x == (IF isLeft THEN 0 - eyeOffsetX ELSE eyeOffsetX) * 100
        y == eyeOffsetY * 100
        large == emotion = "neutral" \/ emotion = "surprised"
        width == IF large THEN eyeWidth * 125 ELSE eyeWidth * 100
        height == IF large THEN eyeHeight * 125 ELSE eyeHeight * 100
    IN  IF blinking
        THEN <<PathCommand("M", <<x - width \div 2, y>>),
               PathCommand("H", <<x + width \div 2>>)>>
        ELSE EyeOutline(emotion, x, y, width, height)

getEyeShinePosition(emotion, isLeft) ==
    LET baseX == (IF isLeft THEN 0 - eyeOffsetX ELSE eyeOffsetX) * 100
        offsetX == IF emotion = "surprised" THEN 0 ELSE eyeWidth * 20
        offsetY == IF emotion = "sad"
                   THEN eyeHeight * 15 ELSE 0 - eyeHeight * 20
    IN  [x |-> baseX + offsetX, y |-> eyeOffsetY * 100 + offsetY]

getEyeShineSize(emotion) ==
    IF emotion = "surprised" THEN (eyeWidth * 195) \div 10 ELSE eyeWidth * 15

getAngryEyebrowPath(isLeft) ==
    LET x == (IF isLeft THEN 0 - eyeOffsetX ELSE eyeOffsetX) * 100
        y == eyeOffsetY * 100 - eyeHeight * 60
        width == eyeWidth * 90
    IN  IF isLeft
        THEN <<PathCommand("M", <<x - width \div 2, y - (width * 3) \div 10>>),
               PathCommand("L", <<x + width \div 2, y>>)>>
        ELSE <<PathCommand("M", <<x - width \div 2, y>>),
               PathCommand("L", <<x + width \div 2, y - (width * 3) \div 10>>)>>

getSurprisedEyebrowPath(isLeft) ==
    LET x == (IF isLeft THEN 0 - eyeOffsetX ELSE eyeOffsetX) * 100
        y == eyeOffsetY * 100 - eyeHeight * 110
        width == eyeWidth * 130
    IN  <<PathCommand("M", <<x - width \div 2, y>>),
          PathCommand("Q", <<x, y - (width * 4) \div 10,
                             x + width \div 2, y>>)>>

leftEyeVariants ==
    [normal |-> getEyePath(eyeEmotion, TRUE, FALSE),
     blinking |-> getEyePath(eyeEmotion, TRUE, TRUE)]

rightEyeVariants ==
    [normal |-> getEyePath(eyeEmotion, FALSE, FALSE),
     blinking |-> getEyePath(eyeEmotion, FALSE, TRUE)]

\* What the component draws of the eyes: each field is the sequence of the
\* elements rendered, the left one first.

\* Faulty variant of AngryEyebrows: drawn during a blink as well.
AngryEyebrowsWhileBlinking ==
    IF eyeEmotion = "angry"
    THEN <<getAngryEyebrowPath(TRUE), getAngryEyebrowPath(FALSE)>>
    ELSE <<>>

AngryEyebrows ==
    IF eyeEmotion = "angry" /\ ~isBlinking
    THEN <<getAngryEyebrowPath(TRUE), getAngryEyebrowPath(FALSE)>>
    ELSE <<>>

SurprisedEyebrows ==
    IF eyeEmotion = "surprised" /\ ~isBlinking
    THEN <<getSurprisedEyebrowPath(TRUE), getSurprisedEyebrowPath(FALSE)>>
    ELSE <<>>

Eyes ==
    <<IF isBlinking THEN leftEyeVariants.blinking ELSE leftEyeVariants.normal,
      IF isBlinking THEN rightEyeVariants.blinking
                    ELSE rightEyeVariants.normal>>

\* x is the offset the animation controls add to the circle, in 1/100000.
EyeShine ==
    IF ~isBlinking
    THEN <<[cx |-> getEyeShinePosition(eyeEmotion, TRUE).x,
            cy |-> getEyeShinePosition(eyeEmotion, TRUE).y,
            r |-> getEyeShineSize(eyeEmotion),
            x |-> leftEyeShineControls],
           [cx |-> getEyeShinePosition(eyeEmotion, FALSE).x,
            cy |-> getEyeShinePosition(eyeEmotion, FALSE).y,
            r |-> getEyeShineSize(eyeEmotion),
            x |-> rightEyeShineControls]>>
    ELSE <<>>

----------------------------------------------------------------------------
(* Speech tick of AIAvatar                                                 *)

\* Faulty variant of TickResult: the cursor also advances past the last token.
TickResultPastEnd(timer, chunks, speaking, s) ==
    IF timer.chunkIndex < timer.length
    THEN RunEffects(chunks, speaking,
                    [s EXCEPT !.chunkIndex = s.chunkIndex + 1,
                              !.visemeTimerRef = NoTimer,
                              !.visemeTimers = s.visemeTimers - 1],
                    FALSE, FALSE, TRUE)
    ELSE [s EXCEPT !.currentViseme = "X", !.visemeTimerRef = NoTimer,
                   !.visemeTimers = s.visemeTimers - 1]

\* Faulty variant of TickResult: the tick on the last token rewinds the
\* cursor to the first token.
TickResultRewindsAtEnd(timer, chunks, speaking, s) ==
    IF timer.chunkIndex < timer.length - 1
    THEN RunEffects(chunks, speaking,
                    [s EXCEPT !.chunkIndex = s.chunkIndex + 1,
                              !.visemeTimerRef = NoTimer,
                              !.visemeTimers = s.visemeTimers - 1],
                    FALSE, FALSE, TRUE)
    ELSE [s EXCEPT !.currentViseme = "X", !.chunkIndex = 0,
                   !.visemeTimerRef = NoTimer,
                   !.visemeTimers = s.visemeTimers - 1]

\* Faulty variant of TickResult: the tick advances the cursor while
\* chunkIndex < textChunks.length, the last token included.
TickResultAdvancesPastEnd(timer, chunks, speaking, s) ==
    IF timer.chunkIndex < timer.length
    THEN RunEffects(chunks, speaking,
                    [s EXCEPT !.chunkIndex = s.chunkIndex + 1,
                              !.visemeTimerRef = NoTimer,
                              !.visemeTimers = s.visemeTimers - 1],
                    FALSE, FALSE, TRUE)
    ELSE [s EXCEPT !.currentViseme = "X", !.visemeTimerRef = NoTimer,
                   !.visemeTimers = s.visemeTimers - 1]

\* The callback of the 100 ms timer, with the chunkIndex and textChunks of
\* the render that set it.
TickResult(timer, chunks, speaking, s) ==
    IF timer.chunkIndex < timer.length - 1
    THEN RunEffects(chunks, speaking,
                    [s EXCEPT !.chunkIndex = s.chunkIndex + 1,
                              !.visemeTimerRef = NoTimer,
                              !.visemeTimers = s.visemeTimers - 1],
                    FALSE, FALSE, TRUE)
    ELSE [s EXCEPT !.currentViseme = "X", !.visemeTimerRef = NoTimer,
                   !.visemeTimers = s.visemeTimers - 1]

SpeechTick ==
    /\ visemeTimerRef.pending
    /\ SetAvatarState(TickResult(visemeTimerRef, textChunks, isSpeaking,
                                 AvatarState))
    /\ UNCHANGED <<propVars, eyeEmotion, idleVars, mounted, appVars>>

----------------------------------------------------------------------------
(* The parent of AIAvatar: renders with new props                          *)

\* A new array, whatever its content, is a new reference.
SetTextChunks(chunks) ==
    /\ mounted
    /\ textChunks' = chunks
    /\ SetAvatarState(RunEffects(chunks, isSpeaking, AvatarState,
                                 TRUE, FALSE, FALSE))
    /\ UNCHANGED <<isSpeaking, eyeEmotion, idleVars, mounted, appVars>>

SetIsSpeaking(speaking) ==
    /\ mounted
    /\ speaking # isSpeaking
    /\ isSpeaking' = speaking
    /\ SetAvatarState(RunEffects(textChunks, speaking, AvatarState,
                                 FALSE, TRUE, FALSE))
    /\ UNCHANGED <<textChunks, eyeEmotion, idleVars, mounted, appVars>>

\* Both props change in one render.
SetProps(chunks, speaking) ==
    /\ mounted
    /\ speaking # isSpeaking
    /\ textChunks' = chunks
    /\ isSpeaking' = speaking
    /\ SetAvatarState(RunEffects(chunks, speaking, AvatarState,
                                 TRUE, TRUE, FALSE))
    /\ UNCHANGED <<eyeEmotion, idleVars, mounted, appVars>>

\* Faulty variant of SetEyeEmotion: the viseme effect also depends on
\* eyeEmotion and runs again.
SetEyeEmotionRerunsVisemeEffect(emotion) ==
    /\ mounted
    /\ emotion # eyeEmotion
    /\ eyeEmotion' = emotion
    /\ SetAvatarState(RunEffects(textChunks, isSpeaking, AvatarState,
                                 TRUE, FALSE, FALSE))
    /\ UNCHANGED <<propVars, idleVars, mounted, appVars>>

\* No effect of AIAvatar depends on eyeEmotion.
SetEyeEmotion(emotion) ==
    /\ mounted
    /\ emotion # eyeEmotion
    /\ eyeEmotion' = emotion
    /\ UNCHANGED <<propVars, avatarVars, idleVars, mounted, appVars>>

\* Unmount runs the cleanups: each clears the timer its ref holds.  The
\* untracked timers of the two on-phases are in no ref.  The eye shine
\* circles go with the component.
Unmount ==
    /\ mounted
    /\ mounted' = FALSE
    /\ blinkIntervalRef' = FALSE
    /\ distractionIntervalRef' = FALSE
    /\ visemeTimerRef' = NoTimer
    /\ visemeTimers' = clearTimeout(visemeTimerRef, visemeTimers)
    /\ leftEyeShineControls' = 0
    /\ rightEyeShineControls' = 0
    /\ UNCHANGED <<propVars, eyeEmotion, currentViseme, chunkIndex,
                   isBlinking, isDistracted, blinkOffTimer, blinkClock,
                   distractionOffTimer, distractionClock, appVars>>

----------------------------------------------------------------------------
(* Timers of App                                                           *)

\* The stream timer calls the streamNextToken of the render that set it, so
\* it carries that render's isSpeaking and streamingSpeed; its delay is that
\* streamingSpeed.  remaining is the time left until it fires.
NoStreamTimer ==
    [pending |-> FALSE, isSpeaking |-> FALSE, streamingSpeed |-> 0,
     remaining |-> 0]

StreamTimer(speaking, speed) ==
    [pending |-> TRUE, isSpeaking |-> speaking, streamingSpeed |-> speed,
     remaining |-> speed]

\* The 1.5 s typing timeout.  age counts the stream timer firings since it
\* was set, up to IdleMinStreamFires.
NoTypingTimeout == [pending |-> FALSE, age |-> 0]

TypingTimeout == [pending |-> TRUE, age |-> 0]

----------------------------------------------------------------------------
(* The engine under an arbitrary parent                                    *)

InitialStreamingSpeed == 100

\* The initial value of the textarea
sampleText ==
    <<"S", "t", "a", "r", "t", " ", "t", "y", "p", "i", "n", "g", " ",
      "h", "e", "r", "e", " ", "a", "n", "d", " ", "I", " ", "w", "i",
      "l", "l", " ", "s", "p", "e", "a", "k", " ", "i", "n", " ", "r",
      "e", "a", "l", "-", "t", "i", "m", "e", "!">>

\* State of App before any input (useState and useRef initial values).
InitApp ==
    /\ tokensToStreamRef = <<>>
    /\ currentTokenRef = 0
    /\ lastTypedTextRef = <<>>
    /\ streamTimerRef = NoStreamTimer
    /\ typingTimeoutRef = NoTypingTimeout
    /\ typingTimers = 0
    /\ streamTimers = 0
    /\ streamingSpeed = InitialStreamingSpeed
    /\ inputText = sampleText

\* State of AIAvatar after its first render and effects.
Mounted(chunks, speaking) ==
    /\ mounted = TRUE
    /\ isBlinking = FALSE
    /\ isDistracted = FALSE
    /\ blinkIntervalRef = TRUE
    /\ blinkOffTimer = FALSE
    /\ distractionIntervalRef = TRUE
    /\ distractionOffTimer = FALSE
    /\ leftEyeShineControls = 0
    /\ rightEyeShineControls = 0
    /\ blinkClock = 0
    /\ distractionClock = 0
    /\ LET s == RunEffects(chunks, speaking, InitialAvatarState,
                           TRUE, TRUE, TRUE)
       IN  /\ currentViseme = s.currentViseme
           /\ chunkIndex = s.chunkIndex
           /\ visemeTimerRef = s.visemeTimerRef
           /\ visemeTimers = s.visemeTimers

\* AIAvatar mounted with the defaults of its props.  Mounting with other
\* props leaves the state that SetTextChunks, SetIsSpeaking or SetProps
\* leaves from here.
Init ==
    /\ textChunks = <<>>
    /\ isSpeaking = FALSE
    /\ eyeEmotion = "neutral"
    /\ Mounted(textChunks, isSpeaking)
    /\ InitApp

Next ==
    \/ \E chunks \in ChunkSeqs : SetTextChunks(chunks)
    \/ \E speaking \in BOOLEAN : SetIsSpeaking(speaking)
    \/ \E chunks \in ChunkSeqs, speaking \in BOOLEAN : SetProps(chunks, speaking)
    \/ \E emotion \in EyeEmotion : SetEyeEmotion(emotion)
    \/ SpeechTick
    \/ BlinkTimerFires
    \/ BlinkOffTimerFires
    \/ DistractionTimerFires
    \/ DistractionOffTimerFires
    \/ Unmount

Spec == Init /\ [][Next]_vars

----------------------------------------------------------------------------
(* App: the producer                                                       *)

maxChunks == 20

IdleDelay == 1500

MaxStreamingSpeed == 300

\* The typing timeout is set before the stream is (re)started and both run
\* on one event loop, so at every speed the slider allows at least this many
\* stream timer firings precede its callback while the stream is running.
IdleMinStreamFires == (IdleDelay \div MaxStreamingSpeed) - 1

MaxShortText == 1

MaxText == 21

TypedChars == {"h", "i"}

\* The values the textarea hands to handleTextChange: short typed texts and
\* pasted beginnings of the sample text longer than maxChunks.
Texts ==
    UNION {[1..n -> TypedChars] : n \in 0..MaxShortText}
    \cup {SubSeq(sampleText, 1, n) : n \in (maxChunks + 1)..MaxText}

\* Array.prototype.slice(-n)
SliceLast(seq, n) ==
    IF Len(seq) > n THEN SubSeq(seq, Len(seq) - n + 1, Len(seq)) ELSE seq

\* String.prototype.slice(n)
SliceFrom(text, n) == SubSeq(text, n + 1, Len(text))

\* String.prototype.split(''): one single-character token per character
Split(text) == [i \in 1..Len(text) |-> <<text[i]>>]

\* Faulty variant of UpdatedChunks: the slice keeps one token too few.
UpdatedChunksSliceOffByOne(prev, newToken) ==
    LET updatedChunks == Append(prev, newToken)
    IN  IF Len(updatedChunks) > maxChunks
        THEN SliceLast(updatedChunks, maxChunks - 1)
        ELSE updatedChunks

\* The updater handed to setTextChunks.
UpdatedChunks(prev, newToken) ==
    LET updatedChunks == Append(prev, newToken)
    IN  IF Len(updatedChunks) > maxChunks
        THEN SliceLast(updatedChunks, maxChunks)
        ELSE updatedChunks

\* Faulty variant of StreamNextToken: waiting at the end of the queue, the
\* last token is published once more.
StreamNextTokenRepublishes(speaking, speed, chunks, tokens, current, timer) ==
    IF ~speaking
    THEN [textChunks |-> chunks, changed |-> FALSE, currentToken |-> current,
          streamTimerRef |-> timer, stop |-> FALSE]
    ELSE IF current < Len(tokens)
    THEN [textChunks |-> UpdatedChunks(chunks, tokens[current + 1]),
          changed |-> TRUE, currentToken |-> current + 1,
          streamTimerRef |-> StreamTimer(speaking, speed), stop |-> FALSE]
    ELSE IF Len(tokens) > 0
    THEN [textChunks |-> UpdatedChunks(chunks, tokens[current]),
          changed |-> TRUE, currentToken |-> current,
          streamTimerRef |-> StreamTimer(speaking, speed), stop |-> FALSE]
    ELSE [textChunks |-> chunks, changed |-> FALSE, currentToken |-> current,
          streamTimerRef |-> timer, stop |-> TRUE]

\* streamNextToken of a render whose isSpeaking is speaking and whose
\* streamingSpeed is speed: what it leaves.  changed: setTextChunks was
\* called; stop: setIsSpeaking(false) was called.
StreamNextToken(speaking, speed, chunks, tokens, current, timer) ==
    IF ~speaking
    THEN [textChunks |-> chunks, changed |-> FALSE, currentToken |-> current,
          streamTimerRef |-> timer, stop |-> FALSE]
    ELSE IF current < Len(tokens)
    THEN [textChunks |-> UpdatedChunks(chunks, tokens[current + 1]),
          changed |-> TRUE, currentToken |-> current + 1,
          streamTimerRef |-> StreamTimer(speaking, speed), stop |-> FALSE]
    ELSE IF Len(tokens) > 0
    THEN [textChunks |-> chunks, changed |-> FALSE, currentToken |-> current,
          streamTimerRef |-> StreamTimer(speaking, speed), stop |-> FALSE]
    ELSE [textChunks |-> chunks, changed |-> FALSE, currentToken |-> current,
          streamTimerRef |-> timer, stop |-> TRUE]

\* The pending stream timers after a call of streamNextToken with result r
\* made with n of them pending and none held by streamTimerRef: the call
\* sets one where it sets streamTimerRef, and the cleanup of App's
\* isSpeaking effect clears the one the ref holds when the call has stopped
\* the stream.
StreamTimersAfter(r, n) ==
    LET set == IF r.streamTimerRef.pending THEN n + 1 ELSE n
    IN  IF r.stop THEN clearTimeout(r.streamTimerRef, set) ELSE set

\* The commits that follow a call of streamNextToken with result r, made
\* while App's isSpeaking is TRUE and AIAvatar is in state s.
AfterStream(r, s) ==
    /\ textChunks' = r.textChunks
    /\ currentTokenRef' = r.currentToken
    /\ isSpeaking' = ~r.stop
    \* the cleanup of App's isSpeaking effect clears the stream timer
    /\ streamTimerRef' = IF r.stop THEN NoStreamTimer ELSE r.streamTimerRef
    /\ SetAvatarState(RunEffects(r.textChunks, ~r.stop, s,
                                 r.changed, r.stop, FALSE))

\* Faulty variant of HandleTextChange: processText calls streamNextToken
\* itself whenever the text has grown, a stream timer pending or not.
HandleTextChangeRestartsStream(text) ==
    LET newTextPortion == SliceFrom(text, Len(lastTypedTextRef))
        grows == Len(newTextPortion) > 0
        tokens == IF grows
                  THEN tokensToStreamRef \o Split(newTextPortion)
                  ELSE tokensToStreamRef
    IN  /\ inputText' = text
        /\ typingTimeoutRef' = TypingTimeout
        /\ typingTimers' = clearTimeout(typingTimeoutRef, typingTimers) + 1
        /\ tokensToStreamRef' = tokens
        /\ lastTypedTextRef' = IF grows THEN text ELSE lastTypedTextRef
        /\ IF grows
           THEN LET r == StreamNextToken(TRUE, streamingSpeed, textChunks,
                                         tokens, currentTokenRef,
                                         NoStreamTimer)
                IN  /\ AfterStream(r, RunEffects(textChunks, TRUE,
                                                 AvatarState,
                                                 FALSE, ~isSpeaking, FALSE))
                    /\ streamTimers' = StreamTimersAfter(r, streamTimers)
           ELSE UNCHANGED <<propVars, avatarVars, currentTokenRef,
                            streamTimerRef, streamTimers>>
        /\ UNCHANGED <<eyeEmotion, idleVars, mounted, streamingSpeed>>

\* Faulty variant of HandleTextChange: processText stores the text in
\* lastTypedTextRef whether it has grown or not.
HandleTextChangeAlwaysRemembers(text) ==
    LET newTextPortion == SliceFrom(text, Len(lastTypedTextRef))
        grows == Len(newTextPortion) > 0
        tokens == IF grows
                  THEN tokensToStreamRef \o Split(newTextPortion)
                  ELSE tokensToStreamRef
    IN  /\ inputText' = text
        /\ typingTimeoutRef' = TypingTimeout
        /\ typingTimers' = clearTimeout(typingTimeoutRef, typingTimers) + 1
        /\ tokensToStreamRef' = tokens
        /\ lastTypedTextRef' = text
        /\ IF grows /\ ~isSpeaking
           THEN LET r == StreamNextToken(TRUE, streamingSpeed, textChunks,
                                         tokens, currentTokenRef,
                                         NoStreamTimer)
                IN  /\ AfterStream(r, RunEffects(textChunks, TRUE,
                                                 AvatarState,
                                                 FALSE, TRUE, FALSE))
                    /\ streamTimers' =
                           StreamTimersAfter(
                               r, clearTimeout(streamTimerRef, streamTimers))
           ELSE UNCHANGED <<propVars, avatarVars, currentTokenRef,
                            streamTimerRef, streamTimers>>
        /\ UNCHANGED <<eyeEmotion, idleVars, mounted, streamingSpeed>>

\* processText and the commit of setIsSpeaking(true): AIAvatar renders with
\* the new isSpeaking, then App's isSpeaking effect calls streamNextToken.
HandleTextChange(text) ==
    LET newTextPortion == SliceFrom(text, Len(lastTypedTextRef))
        grows == Len(newTextPortion) > 0
        tokens == IF grows
                  THEN tokensToStreamRef \o Split(newTextPortion)
                  ELSE tokensToStreamRef
    IN  /\ inputText' = text
        /\ typingTimeoutRef' = TypingTimeout
        /\ typingTimers' = clearTimeout(typingTimeoutRef, typingTimers) + 1
        /\ tokensToStreamRef' = tokens
        /\ lastTypedTextRef' = IF grows THEN text ELSE lastTypedTextRef
        /\ IF grows /\ ~isSpeaking
           THEN LET r == StreamNextToken(TRUE, streamingSpeed, textChunks,
                                         tokens, currentTokenRef,
                                         NoStreamTimer)
                IN  /\ AfterStream(r, RunEffects(textChunks, TRUE,
                                                 AvatarState,
                                                 FALSE, TRUE, FALSE))
                    \* the cleanup of the effect run that saw isSpeaking
                    \* false comes before the call
                    /\ streamTimers' =
                           StreamTimersAfter(
                               r, clearTimeout(streamTimerRef, streamTimers))
           ELSE UNCHANGED <<propVars, avatarVars, currentTokenRef,
                            streamTimerRef, streamTimers>>
        /\ UNCHANGED <<eyeEmotion, idleVars, mounted, streamingSpeed>>

\* The stream timer fires and calls the streamNextToken it was set with.
StreamTimerFires ==
    /\ streamTimerRef.pending
    /\ LET r == StreamNextToken(streamTimerRef.isSpeaking,
                                streamTimerRef.streamingSpeed, textChunks,
                                tokensToStreamRef, currentTokenRef,
                                NoStreamTimer)
       IN  /\ AfterStream(r, AvatarState)
           /\ streamTimers' = StreamTimersAfter(r, streamTimers - 1)
    /\ typingTimeoutRef' =
           IF typingTimeoutRef.pending /\ typingTimeoutRef.age < IdleMinStreamFires
           THEN [typingTimeoutRef EXCEPT !.age = @ + 1]
           ELSE typingTimeoutRef
    /\ UNCHANGED <<eyeEmotion, idleVars, mounted, tokensToStreamRef,
                   lastTypedTextRef, typingTimers, streamingSpeed,
                   inputText>>

\* The callback of the typing timeout.
TypingTimeoutFires ==
    /\ typingTimeoutRef.pending
    /\ streamTimerRef.pending => typingTimeoutRef.age >= IdleMinStreamFires
    /\ typingTimeoutRef' = NoTypingTimeout
    /\ typingTimers' = typingTimers - 1
    /\ IF currentTokenRef >= Len(tokensToStreamRef) /\ isSpeaking
       THEN /\ isSpeaking' = FALSE
            /\ streamTimerRef' = NoStreamTimer
            /\ streamTimers' = clearTimeout(streamTimerRef, streamTimers)
            /\ SetAvatarState(RunEffects(textChunks, FALSE, AvatarState,
                                         FALSE, TRUE, FALSE))
            /\ UNCHANGED textChunks
       ELSE UNCHANGED <<propVars, avatarVars, streamTimerRef, streamTimers>>
    /\ UNCHANGED <<eyeEmotion, idleVars, mounted, tokensToStreamRef,
                   currentTokenRef, lastTypedTextRef, streamingSpeed,
                   inputText>>

\* Faulty variant of HandleReset: the idle-detection timer is left pending.
HandleResetKeepsIdleTimer ==
    /\ streamTimerRef' = NoStreamTimer
    /\ streamTimers' = clearTimeout(streamTimerRef, streamTimers)
    /\ isSpeaking' = FALSE
    /\ inputText' = <<>>
    /\ textChunks' = <<>>
    /\ tokensToStreamRef' = <<>>
    /\ currentTokenRef' = 0
    /\ lastTypedTextRef' = <<>>
    /\ SetAvatarState(RunEffects(<<>>, FALSE, AvatarState,
                                 TRUE, isSpeaking, FALSE))
    /\ UNCHANGED <<eyeEmotion, idleVars, mounted, streamingSpeed,
                   typingTimeoutRef, typingTimers>>

\* Faulty variant of HandleReset: the stream cursor is left where it was.
HandleResetKeepsCursor ==
    /\ streamTimerRef' = NoStreamTimer
    /\ streamTimers' = clearTimeout(streamTimerRef, streamTimers)
    /\ typingTimeoutRef' = NoTypingTimeout
    /\ typingTimers' = clearTimeout(typingTimeoutRef, typingTimers)
    /\ isSpeaking' = FALSE
    /\ inputText' = <<>>
    /\ textChunks' = <<>>
    /\ tokensToStreamRef' = <<>>
    /\ lastTypedTextRef' = <<>>
    /\ SetAvatarState(RunEffects(<<>>, FALSE, AvatarState,
                                 TRUE, isSpeaking, FALSE))
    /\ UNCHANGED <<eyeEmotion, idleVars, mounted, streamingSpeed,
                   currentTokenRef>>

\* Faulty variant of HandleReset: the queue is emptied, but the stream timer
\* is not cleared and isSpeaking is left as it was.
HandleResetLeavesSpeaking ==
    /\ typingTimeoutRef' = NoTypingTimeout
    /\ typingTimers' = clearTimeout(typingTimeoutRef, typingTimers)
    /\ inputText' = <<>>
    /\ textChunks' = <<>>
    /\ tokensToStreamRef' = <<>>
    /\ currentTokenRef' = 0
    /\ lastTypedTextRef' = <<>>
    /\ SetAvatarState(RunEffects(<<>>, isSpeaking, AvatarState,
                                 TRUE, FALSE, FALSE))
    /\ UNCHANGED <<eyeEmotion, idleVars, mounted, streamingSpeed,
                   isSpeaking, streamTimerRef, streamTimers>>

\* handleReset; setTextChunks([]) hands AIAvatar a new array.
HandleReset ==
    /\ streamTimerRef' = NoStreamTimer
    /\ streamTimers' = clearTimeout(streamTimerRef, streamTimers)
    /\ typingTimeoutRef' = NoTypingTimeout
    /\ typingTimers' = clearTimeout(typingTimeoutRef, typingTimers)
    /\ isSpeaking' = FALSE
    /\ inputText' = <<>>
    /\ textChunks' = <<>>
    /\ tokensToStreamRef' = <<>>
    /\ currentTokenRef' = 0
    /\ lastTypedTextRef' = <<>>
    /\ SetAvatarState(RunEffects(<<>>, FALSE, AvatarState,
                                 TRUE, isSpeaking, FALSE))
    /\ UNCHANGED <<eyeEmotion, idleVars, mounted, streamingSpeed>>

\* handleEmotionChange
HandleEmotionChange(emotion) ==
    /\ emotion # eyeEmotion
    /\ eyeEmotion' = emotion
    /\ UNCHANGED <<propVars, avatarVars, idleVars, mounted, appVars>>

InitProgram ==
    /\ textChunks = <<>>
    /\ isSpeaking = FALSE
    /\ eyeEmotion = "neutral"
    /\ Mounted(textChunks, isSpeaking)
    /\ InitApp

NextProgram ==
    \/ \E text \in Texts : HandleTextChange(text)
    \/ StreamTimerFires
    \/ TypingTimeoutFires
    \/ HandleReset
    \/ SpeechTick

SpecProgram == InitProgram /\ [][NextProgram]_vars

----------------------------------------------------------------------------
(* App and AIAvatar with the blink and the distraction: every timer family *)
(* of the program, under texts typed one character after the other and a   *)
(* pasted beginning of the sample text.                                    *)

FamilyTexts ==
    {<<>>, <<"h">>, <<"h", "i">>, SubSeq(sampleText, 1, maxChunks + 1)}

NextFamilies ==
    \/ \E text \in FamilyTexts : HandleTextChange(text)
    \/ StreamTimerFires
    \/ TypingTimeoutFires
    \/ HandleReset
    \/ SpeechTick
    \/ BlinkTimerFires
    \/ BlinkOffTimerFires
    \/ DistractionTimerFires
    \/ DistractionOffTimerFires

SpecFamilies == InitProgram /\ [][NextFamilies]_vars

----------------------------------------------------------------------------
(* App with the speed slider and the emotion select                        *)

\* Values of the range input (min 50, max 300, step 10).
Speeds == {InitialStreamingSpeed, MaxStreamingSpeed}

\* handleSpeedChange: App renders again; no dependency of an effect changes
\* and AIAvatar gets the props it had.
HandleSpeedChange(v) ==
    /\ v # streamingSpeed
    /\ streamingSpeed' = v
    /\ UNCHANGED <<propVars, eyeEmotion, avatarVars, idleVars, mounted,
                   tokensToStreamRef, currentTokenRef, lastTypedTextRef,
                   streamTimerRef, typingTimeoutRef, typingTimers,
                   inputText, streamTimers>>

\* App with the speed slider alone.
NextPace ==
    \/ NextProgram
    \/ \E v \in Speeds : HandleSpeedChange(v)

SpecPace == InitProgram /\ [][NextPace]_vars

NextSpeed ==
    \/ NextProgram
    \/ \E v \in Speeds : HandleSpeedChange(v)
    \/ \E emotion \in EyeEmotion : HandleEmotionChange(emotion)

SpecSpeed == InitProgram /\ [][NextSpeed]_vars

----------------------------------------------------------------------------
(* App and the speech tick of AIAvatar in time: the stream timer and the   *)
(* speech timer fire when their delay has elapsed, and time does not pass  *)
(* a timer that is due.  The blink, the distraction and the emotion are    *)
(* left out.                                                               *)

MinStreamingSpeed == 50

\* The delays (nextChunkDelay and the values of the speed slider) are
\* multiples of the least speed: time passes in steps of it.
Elapse ==
    /\ visemeTimerRef.pending \/ streamTimerRef.pending
    /\ visemeTimerRef.pending => visemeTimerRef.remaining > 0
    /\ streamTimerRef.pending => streamTimerRef.remaining > 0
    /\ visemeTimerRef' =
           IF visemeTimerRef.pending
           THEN [visemeTimerRef EXCEPT !.remaining = @ - MinStreamingSpeed]
           ELSE visemeTimerRef
    /\ streamTimerRef' =
           IF streamTimerRef.pending
           THEN [streamTimerRef EXCEPT !.remaining = @ - MinStreamingSpeed]
           ELSE streamTimerRef
    /\ UNCHANGED <<propVars, eyeEmotion, currentViseme, chunkIndex,
                   visemeTimers, idleVars, mounted, tokensToStreamRef,
                   currentTokenRef, lastTypedTextRef, typingTimeoutRef,
                   typingTimers, streamingSpeed, inputText, streamTimers>>

\* Both timers are due.  Timers due at the same time fire in the order they
\* were set.  A stream timer with a longer delay was set earlier; with the
\* same delay both were set after the same callback, the stream timer by
\* the callback itself and the speech timer by the effect of the render
\* that followed it.
BothDue ==
    /\ streamTimerRef.pending
    /\ streamTimerRef.remaining = 0
    /\ visemeTimerRef.pending
    /\ visemeTimerRef.remaining = 0

StreamTimerDue ==
    /\ streamTimerRef.remaining = 0
    /\ BothDue => streamTimerRef.streamingSpeed >= nextChunkDelay
    /\ StreamTimerFires

SpeechTickDue ==
    /\ visemeTimerRef.remaining = 0
    /\ BothDue => streamTimerRef.streamingSpeed < nextChunkDelay
    /\ SpeechTick

NextTimed ==
    \/ \E text \in Texts : HandleTextChange(text)
    \/ \E v \in Speeds \cup {MinStreamingSpeed} : HandleSpeedChange(v)
    \/ Elapse
    \/ StreamTimerDue
    \/ SpeechTickDue
    \/ TypingTimeoutFires
    \/ HandleReset

SpecTimed == InitProgram /\ [][NextTimed]_vars

----------------------------------------------------------------------------
(* The engine with the timers fired fairly: a pending timer of the blink   *)
(* or distraction cycle fires after finitely many other events.            *)

FairSpec ==
    /\ Spec
    /\ WF_vars(BlinkTimerFires)
    /\ WF_vars(BlinkOffTimerFires)
    /\ WF_vars(DistractionTimerFires)
    /\ WF_vars(DistractionOffTimerFires)

----------------------------------------------------------------------------
(* The engine mounted with the tokens of "Hello" and isSpeaking = TRUE,    *)
(* props never changed afterwards (the usage of the README).               *)

HelloInputs ==
    {<<<<"H">>, <<"e">>, <<"l">>, <<"l">>, <<"o">>>>,
     <<<<"h">>, <<"e">>, <<"l">>, <<"l">>, <<"o">>>>}

InitHello ==
    /\ textChunks \in HelloInputs
    /\ isSpeaking = TRUE
    /\ eyeEmotion = "neutral"
    /\ Mounted(textChunks, isSpeaking)
    /\ InitApp

NextHello ==
    \/ SpeechTick
    \/ BlinkTimerFires
    \/ BlinkOffTimerFires
    \/ DistractionTimerFires
    \/ DistractionOffTimerFires
    \/ \E emotion \in EyeEmotion : SetEyeEmotion(emotion)

SpecHello == InitHello /\ [][NextHello]_vars

----------------------------------------------------------------------------
(* The engine mounted with two single-character tokens and                 *)
(* isSpeaking = TRUE, props never changed afterwards: every modelled       *)
(* character is resolved at the first and at the second position.          *)

\* The characters of the table, the capitals, and digits, punctuation and
\* letters the table does not hold.
ResolverChars ==
    DOMAIN VISEME_MAP \cup DOMAIN UpperToLower
    \cup {"0", "7", "-", ";", "U+00E9"}

ResolverInputs == {<<<<c>>, <<d>>>> : c, d \in ResolverChars}

InitResolver ==
    /\ textChunks \in ResolverInputs
    /\ isSpeaking = TRUE
    /\ eyeEmotion = "neutral"
    /\ Mounted(textChunks, isSpeaking)
    /\ InitApp

NextResolver == SpeechTick

SpecResolver == InitResolver /\ [][NextResolver]_vars

----------------------------------------------------------------------------
(* The engine mounted with isSpeaking = TRUE and a buffer whose tokens are *)
(* empty, of several characters or of one character; props never changed   *)
(* afterwards.                                                             *)

MalformedLen == 3

MalformedTokens == {<<>>, <<"h", "i">>, <<"i", "h">>, <<"o">>}

MalformedInputs == [1..MalformedLen -> MalformedTokens]

InitMalformed ==
    /\ textChunks \in MalformedInputs
    /\ isSpeaking = TRUE
    /\ eyeEmotion = "neutral"
    /\ Mounted(textChunks, isSpeaking)
    /\ InitApp

NextMalformed == SpeechTick

SpecMalformed == InitMalformed /\ [][NextMalformed]_vars

----------------------------------------------------------------------------
(* The engine under a parent that also passes a value of eyeEmotion the    *)
(* type EyeEmotion does not hold, as a caller without type checking can.   *)

EmotionInputs == EyeEmotion \cup {"sleepy"}

NextRender ==
    \/ Next
    \/ \E emotion \in EmotionInputs : SetEyeEmotion(emotion)

SpecRender == Init /\ [][NextRender]_vars

----------------------------------------------------------------------------
(* The blink cycle in time, in milliseconds.  blinkClock is the age of the *)
(* pending blink timer.  The delay drawn when a timer is set is read by    *)
(* nothing before the timer fires, so it is drawn when the timer fires: a  *)
(* timer may fire at an age that is one of its delays, and time does not   *)
(* pass its greatest delay.                                                *)

BlinkDuration == 150

MinBlinkDelay == 2000

BlinkDelaySpan == 3000

\* Faulty variant of BlinkDelays: the delay is Math.random() * 3000.
BlinkDelaysFromZero == 0..(BlinkDelaySpan - 1)

\* Math.random() * 3000 + 2000 with 0 <= Math.random() < 1, as the whole
\* number of milliseconds the timer takes.
BlinkDelays == MinBlinkDelay..(MinBlinkDelay + BlinkDelaySpan - 1)

ElapseBlink ==
    /\ blinkIntervalRef => ~(\A delay \in BlinkDelays : delay <= blinkClock)
    /\ blinkOffTimer => blinkClock < BlinkDuration
    /\ blinkIntervalRef \/ blinkOffTimer
    /\ blinkClock' = blinkClock + 1
    /\ UNCHANGED <<propVars, eyeEmotion, avatarVars, isBlinking, isDistracted,
                   blinkIntervalRef, blinkOffTimer, distractionIntervalRef,
                   distractionOffTimer, distractionClock, gazeVars, mounted,
                   appVars>>

BlinkTimerDue == blinkClock \in BlinkDelays /\ BlinkTimerFires

BlinkOffTimerDue == blinkClock = BlinkDuration /\ BlinkOffTimerFires

NextBlink ==
    \/ ElapseBlink
    \/ BlinkTimerDue
    \/ BlinkOffTimerDue

SpecBlink == Init /\ [][NextBlink]_vars

----------------------------------------------------------------------------
(* The distraction cycle in time, in milliseconds, as the blink cycle      *)
(* above; the blink itself is left untimed here and may start and end at   *)
(* any moment.                                                             *)

MinDistractionDelay == 3000

DistractionDelaySpan == 5000

MinDistractionDuration == 800

DistractionDurationSpan == 200

\* Math.random() * 5000 + 3000, in whole milliseconds
DistractionDelays ==
    MinDistractionDelay..(MinDistractionDelay + DistractionDelaySpan - 1)

\* 800 + Math.random() * 200, in whole milliseconds
DistractionDurations ==
    MinDistractionDuration..
        (MinDistractionDuration + DistractionDurationSpan - 1)

ElapseDistraction ==
    /\ distractionIntervalRef
           => ~(\A delay \in DistractionDelays : delay <= distractionClock)
    /\ distractionOffTimer
           => ~(\A duration \in DistractionDurations :
                    duration <= distractionClock)
    /\ distractionIntervalRef \/ distractionOffTimer
    /\ distractionClock' = distractionClock + 1
    /\ UNCHANGED <<propVars, eyeEmotion, avatarVars, isBlinking, isDistracted,
                   blinkIntervalRef, blinkOffTimer, blinkClock,
                   distractionIntervalRef, distractionOffTimer, gazeVars,
                   mounted, appVars>>

DistractionTimerDue ==
    distractionClock \in DistractionDelays /\ DistractionTimerFires

DistractionOffTimerDue ==
    distractionClock \in DistractionDurations /\ DistractionOffTimerFires

NextDistraction ==
    \/ ElapseDistraction
    \/ DistractionTimerDue
    \/ DistractionOffTimerDue
    \/ BlinkTimerFires
    \/ BlinkOffTimerFires

SpecDistraction == Init /\ [][NextDistraction]_vars

----------------------------------------------------------------------------
(* Properties                                                              *)

AnyAvatarTimerPending ==
    \/ visemeTimerRef.pending
    \/ blinkIntervalRef
    \/ blinkOffTimer
    \/ distractionIntervalRef
    \/ distractionOffTimer

\* The buffer is exhausted: the tick of the last token has elapsed, the mouth
\* rests and the cursor is on the last token.
Exhausted ==
    /\ mounted
    /\ isSpeaking
    /\ textChunks # <<>>
    /\ chunkIndex = Len(textChunks) - 1
    /\ ~visemeTimerRef.pending
    /\ currentViseme = "X"

\* This step appends one token to textChunks.
IsAppend ==
    /\ Len(textChunks') = Len(textChunks) + 1
    /\ SubSeq(textChunks', 1, Len(textChunks)) = textChunks

HelloVisemes == <<"H", "E", "C", "C", "H">>

\* C1: mounted with isSpeaking and the five tokens of "Hello", props never
\* changed: while the tick of token k is pending the mouth shows the viseme
\* of token k (H, E, C, C, H), the cursor moves by one token per tick and by
\* nothing else, and once the tick of the last token has elapsed the mouth is
\* at rest and stays at rest.
C1_HelloSequence ==
    /\ [](IF visemeTimerRef.pending
          THEN /\ chunkIndex < Len(HelloVisemes)
               /\ currentViseme = HelloVisemes[chunkIndex + 1]
          ELSE /\ chunkIndex = Len(HelloVisemes) - 1
               /\ currentViseme = "X")
    /\ [][chunkIndex' # chunkIndex =>
            /\ visemeTimerRef.pending
            /\ chunkIndex' = chunkIndex + 1]_vars
    /\ [][~visemeTimerRef.pending =>
            /\ ~visemeTimerRef'.pending
            /\ currentViseme' = "X"]_vars

\* C1 witness: all five ticks have elapsed and the mouth rests while speaking.
C1_HelloFinished ==
    /\ textChunks \in HelloInputs
    /\ isSpeaking
    /\ chunkIndex = 4
    /\ ~visemeTimerRef.pending
    /\ currentViseme = "X"

\* C2: when a token is appended to an exhausted buffer while isSpeaking stays
\* true, the viseme published by that step is the one of the appended token.
C2_AppendResumesAtNewToken ==
    [][Exhausted /\ IsAppend /\ isSpeaking' =>
         currentViseme' = Resolve(textChunks'[Len(textChunks')])]_vars

\* C3: after teardown no timer of AIAvatar is pending.
C3_TeardownCancelsEveryTimer == ~mounted => ~AnyAvatarTimerPending

C5_IdleTimeoutStopsSpeaking == isSpeaking => typingTimeoutRef.pending

C7_CursorWithinBuffer == chunkIndex <= Len(textChunks)

HI == <<<<"h">>, <<"i">>>>

\* C8: with isSpeaking false or the buffer empty the cursor is 0, whatever it
\* was before; a start from there with the tokens h, i publishes the viseme
\* of h with the cursor at 0, and the tick after it the viseme of i.
C8_ResetZeroesCursor ==
    /\ [](~isSpeaking \/ textChunks = <<>> => chunkIndex = 0)
    /\ [][(~isSpeaking \/ textChunks = <<>>) /\ isSpeaking' /\ textChunks' = HI =>
            /\ chunkIndex' = 0
            /\ currentViseme' = "H"
            /\ visemeTimerRef'.pending]_vars
    /\ [][/\ isSpeaking /\ textChunks = HI /\ chunkIndex = 0
          /\ visemeTimerRef.pending /\ chunkIndex' # chunkIndex
          => chunkIndex' = 1 /\ currentViseme' = "C"]_vars

\* C8 witness: the tokens h, i are spoken and the second one is shown.
C8_SecondTokenShown ==
    /\ mounted
    /\ isSpeaking
    /\ textChunks = HI
    /\ chunkIndex = 1
    /\ currentViseme = "C"
    /\ visemeTimerRef.pending

\* A step of the speech animator or of its props.
SpeechEvent ==
    /\ mounted'
    /\ \/ isSpeaking' # isSpeaking
       \/ textChunks' # textChunks
       \/ avatarVars' # avatarVars

\* C9: while mounted, under fair timer firing, the blink and the distraction
\* each come on again and again, each on-phase ends with the next cycle
\* scheduled, and no speech event changes isBlinking, isDistracted or their
\* timers.
C9_IdleCyclesRunOn ==
    /\ []<>(~mounted \/ isBlinking)
    /\ []<>(~mounted \/ isDistracted)
    /\ (mounted /\ isBlinking) ~> (~mounted \/ (~isBlinking /\ blinkIntervalRef))
    /\ (mounted /\ isDistracted)
           ~> (~mounted \/ (~isDistracted /\ distractionIntervalRef))
    /\ [][SpeechEvent => UNCHANGED idleVars]_vars

\* C9 witness: a blink and a distraction are on while a token is spoken.
C9_BlinkAndDistractionWhileSpeaking ==
    /\ mounted
    /\ isSpeaking
    /\ visemeTimerRef.pending
    /\ chunkIndex > 0
    /\ isBlinking
    /\ isDistracted

\* C10: a change of the emotion changes nothing of the mouth, the cursor, the
\* blink, the distraction or the timers, and the emotion changes in no step
\* but a change of the eyeEmotion prop.
C10_EmotionIndependent ==
    [][/\ eyeEmotion' # eyeEmotion =>
            UNCHANGED <<propVars, avatarVars, idleVars, mounted>>
       /\ (\/ SpeechTick
           \/ BlinkTimerFires
           \/ BlinkOffTimerFires
           \/ DistractionTimerFires
           \/ DistractionOffTimerFires
           \/ Unmount) => eyeEmotion' = eyeEmotion]_vars

\* C10 witness: the emotion was changed while a token is spoken and a blink
\* is on.
C10_EmotionChangedWhileBusy ==
    /\ eyeEmotion = "surprised"
    /\ isSpeaking
    /\ visemeTimerRef.pending
    /\ currentViseme # "X"
    /\ isBlinking

\* The character of the token at the cursor.
ShownChar == textChunks[chunkIndex + 1][1]

\* The 31 characters of the documented table.
TableChars ==
    {"a", "b", "c", "d", "e", "f", "g", "h", "i", "j", "k", "l", "m", "n",
     "o", "p", "q", "r", "s", "t", "u", "v", "w", "x", "y", "z",
     " ", ".", ",", "?", "!"}

\* C11: the mouth state published for a token is always one of the nine
\* visemes; with the lowercase form of its character (the only form
\* consulted) being b, m or p it is the closed shape B, f or v the
\* labiodental F, k, q or g the teeth-showing G, space, '.' or ',' rest,
\* '?' or '!' the wide-open D, and a character whose lowercase form is
\* outside the 31-entry table publishes rest.
C11_ResolverFollowsTable ==
    visemeTimerRef.pending =>
        LET l == toLowerCase(ShownChar)
        IN  /\ currentViseme \in Viseme
            /\ l \in {"b", "m", "p"} => currentViseme = "B"
            /\ l \in {"f", "v"} => currentViseme = "F"
            /\ l \in {"k", "q", "g"} => currentViseme = "G"
            /\ l \in {" ", ".", ","} => currentViseme = "X"
            /\ l \in {"?", "!"} => currentViseme = "D"
            /\ l \notin TableChars => currentViseme = "X"

\* C11 witness: after the closed shape of m, the digit 7 is shown as rest.
C11_DigitAfterLetter ==
    /\ textChunks = <<<<"m">>, <<"7">>>>
    /\ isSpeaking
    /\ chunkIndex = 1
    /\ visemeTimerRef.pending
    /\ currentViseme = "X"

Vowels == {"a", "e", "i", "o", "u", "y"}

CasePairs ==
    {<<"A", "a">>, <<"B", "b">>, <<"C", "c">>, <<"D", "d">>, <<"E", "e">>,
     <<"F", "f">>, <<"G", "g">>, <<"H", "h">>, <<"I", "i">>, <<"J", "j">>,
     <<"K", "k">>, <<"L", "l">>, <<"M", "m">>, <<"N", "n">>, <<"O", "o">>,
     <<"P", "p">>, <<"Q", "q">>, <<"R", "r">>, <<"S", "s">>, <<"T", "t">>,
     <<"U", "u">>, <<"V", "v">>, <<"W", "w">>, <<"X", "x">>, <<"Y", "y">>,
     <<"Z", "z">>, <<"U+00C9", "U+00E9">>, <<"U+212A", "k">>}

\* C13: when the capital form of a letter is spoken and its small form right
\* after it, or the other way round, the tick between them leaves the
\* published mouth state as it is.
C13_CaseInvariant ==
    [][/\ chunkIndex = 0
       /\ chunkIndex' = 1
       /\ \/ <<textChunks[1][1], textChunks[2][1]>> \in CasePairs
          \/ <<textChunks[2][1], textChunks[1][1]>> \in CasePairs
       => currentViseme' = currentViseme]_vars

\* C13 witness: b is shown after B, both with the closed shape.
C13_SmallAfterCapital ==
    /\ textChunks = <<<<"B">>, <<"b">>>>
    /\ isSpeaking
    /\ chunkIndex = 1
    /\ visemeTimerRef.pending
    /\ currentViseme = "B"

\* C14: of each timer family (speech tick, blink cycle, distraction cycle,
\* idle detection) at most one timer is pending in every reachable state: a
\* timer of a family is set only once the previous one has fired or has been
\* cleared, so the timer of the next blink or distraction is never pending
\* together with the timer that ends the current one.
C14_OneTimerPerFamily ==
    /\ visemeTimers <= 1
    /\ typingTimers <= 1
    /\ ~(blinkIntervalRef /\ blinkOffTimer)
    /\ ~(distractionIntervalRef /\ distractionOffTimer)

\* C14 witness: after a pasted text and several appended tokens, each of
\* which ran the viseme effect again, one timer of each family is pending.
C14_OneOfEachPending ==
    /\ isSpeaking
    /\ Len(tokensToStreamRef) > maxChunks
    /\ currentTokenRef > 1
    /\ chunkIndex > 0
    /\ visemeTimers = 1
    /\ typingTimers = 1
    /\ blinkOffTimer
    /\ distractionIntervalRef

C16_SpeedChangeTakesEffect ==
    [][StreamTimerFires /\ streamTimerRef'.pending =>
         streamTimerRef'.streamingSpeed = streamingSpeed']_vars

\* C17: once the tick of the token at the cursor has elapsed, that token is
\* not published again: a token appended then is published at the next
\* cursor position, so each token is published once.
C17_EachTokenPublishedOnce ==
    [][Exhausted /\ IsAppend /\ isSpeaking' =>
         ~(chunkIndex' = chunkIndex /\ visemeTimerRef'.pending)]_vars

\* C18: an append made while the speech tick is pending leaves the tick
\* pending with the time it had left, so the cursor moves on 100 ms after
\* the publication whatever the pace of the producer.
C18_AppendKeepsPendingTick ==
    [][isSpeaking /\ isSpeaking' /\ visemeTimerRef.pending /\ IsAppend =>
         /\ visemeTimerRef'.pending
         /\ visemeTimerRef'.remaining = visemeTimerRef.remaining]_vars

\* C19: when isSpeaking goes from false to true the buffer of the animator
\* holds only what the new session has streamed, its first token, so what
\* is published is a token of the new session.
C19_SessionStartsWithFreshBuffer ==
    [][~isSpeaking /\ isSpeaking' =>
         /\ textChunks' = <<tokensToStreamRef'[currentTokenRef']>>
         /\ currentViseme' = Resolve(tokensToStreamRef'[currentTokenRef'])]_vars

\* C20: while speaking with the buffer exhausted the mouth rests: a mouth off
\* rest has a tick pending that will move it on, and from the exhausted state
\* every step that appends no token, a render with an equal or a shorter
\* array included, leaves the mouth at rest.
C20_RestWhileExhausted ==
    /\ [](mounted /\ isSpeaking /\ ~visemeTimerRef.pending
             => currentViseme = "X")
    /\ [][Exhausted /\ mounted' /\ isSpeaking'
            /\ Len(textChunks') <= Len(textChunks)
          => currentViseme' = "X"]_vars

----------------------------------------------------------------------------
C23_MalformedTokensTolerated ==
    /\ [](currentViseme \in Viseme)
    /\ [](visemeTimerRef.pending /\ textChunks[chunkIndex + 1] # <<>>
            => currentViseme = Resolve(<<textChunks[chunkIndex + 1][1]>>))
    /\ [](isSpeaking /\ chunkIndex < Len(textChunks) - 1
            => visemeTimerRef.pending)
    /\ [][chunkIndex' # chunkIndex /\ textChunks[chunkIndex' + 1] = <<>>
            => currentViseme' = currentViseme /\ visemeTimerRef'.pending]_vars
    /\ [][(/\ textChunks[chunkIndex + 1] = <<>>
           /\ chunkIndex < Len(textChunks) - 1)
            => chunkIndex' = chunkIndex + 1]_vars

\* The cursor has moved from a token of two characters over an empty token
\* to another token of two characters, shown by its first character.
C23_PastEmptyToken ==
    /\ chunkIndex = 2 /\ visemeTimerRef.pending
    /\ textChunks[1] = <<"h", "i">> /\ textChunks[2] = <<>>
    /\ textChunks[3] = <<"i", "h">>
    /\ currentViseme = "C"

\* C24: With an eyeEmotion outside the five of EyeEmotion, each eye is drawn
\* with the path drawn for neutral, while blinking and while not.
C24_UnmappedEmotionAsNeutral ==
    eyeEmotion \notin EyeEmotion
        => Eyes = <<getEyePath("neutral", TRUE, isBlinking),
                    getEyePath("neutral", FALSE, isBlinking)>>

\* A path of one horizontal stroke from left to right.
IsFlatLine(path) ==
    /\ Len(path) = 2
    /\ path[1].command = "M" /\ path[2].command = "H"
    /\ path[2].args[1] > path[1].args[1]

\* C26: While isBlinking is true both eyes are a horizontal line, no eyebrow
\* and no eye shine is drawn, whatever the emotion; while it is false the
\* eyes are the outlines of the emotion and not a line, the eyebrows of
\* angry or surprised are drawn, and both eye shines are drawn.
C26_BlinkClosesEyes ==
    /\ isBlinking =>
          /\ \A i \in 1..2 : IsFlatLine(Eyes[i])
          /\ AngryEyebrows = <<>> /\ SurprisedEyebrows = <<>>
          /\ EyeShine = <<>>
    /\ ~isBlinking =>
          /\ Eyes = <<getEyePath(eyeEmotion, TRUE, FALSE),
                      getEyePath(eyeEmotion, FALSE, FALSE)>>
          /\ \A i \in 1..2 : ~IsFlatLine(Eyes[i])
          /\ eyeEmotion = "angry" => Len(AngryEyebrows) = 2
          /\ eyeEmotion = "surprised" => Len(SurprisedEyebrows) = 2
          /\ Len(EyeShine) = 2

\* A blink is under way while the emotion is angry, one of the two with
\* eyebrows.
C26_BlinkWhileAngry ==
    mounted /\ isBlinking /\ eyeEmotion = "angry" /\ blinkOffTimer

\* The size factor, in hundredths, of the outline of an eye at horizontal
\* position x: the outlines other than the circle start at their left end,
\* half a width from x, and the circle moves left by its radius.
SizeFactor(path, x) ==
    LET half == IF path[2].command = "m"
                THEN 0 - path[2].args[1]
                ELSE x - path[1].args[1]
    IN  (2 * half) \div eyeWidth

IsCircle(path) ==
    /\ Len(path) = 4
    /\ path[1].command = "M" /\ path[2].command = "m"
    /\ \A i \in 3..4 : /\ path[i].command = "a"
                       /\ path[i].args[1] = path[i].args[2]
                       /\ path[i].args[1] = 0 - path[2].args[1]
    /\ path[3].args[6] = 2 * path[3].args[1]
    /\ path[4].args[6] = 0 - path[3].args[6]

\* C30: The open eyes of neutral and surprised are 1.25 times the size of
\* those of happy, sad and angry; eyebrows are drawn, outside a blink, for
\* angry and surprised and for no other emotion; the eyes of surprised, and
\* of no other emotion, are circles; the eye shine of sad, and of no other
\* emotion, lies below the centre line of the eyes; and the paths drawn are
\* those getEyePath gives for the emotion, the side and isBlinking, whatever
\* the rest of the state.
C30_EyeGeometryTable ==
    /\ Eyes = <<getEyePath(eyeEmotion, TRUE, isBlinking),
                getEyePath(eyeEmotion, FALSE, isBlinking)>>
    /\ SizeFactor(leftEyeVariants.normal, 0 - eyeOffsetX * 100)
         = (IF eyeEmotion \in {"neutral", "surprised"} THEN 125 ELSE 100)
    /\ SizeFactor(rightEyeVariants.normal, eyeOffsetX * 100)
         = (IF eyeEmotion \in {"neutral", "surprised"} THEN 125 ELSE 100)
    /\ ~isBlinking =>
          /\ (AngryEyebrows # <<>>) = (eyeEmotion = "angry")
          /\ (SurprisedEyebrows # <<>>) = (eyeEmotion = "surprised")
    /\ IsCircle(leftEyeVariants.normal) = (eyeEmotion = "surprised")
    /\ IsCircle(rightEyeVariants.normal) = (eyeEmotion = "surprised")
    /\ \A isLeft \in BOOLEAN :
          (getEyeShinePosition(eyeEmotion, isLeft).y > eyeOffsetY * 100)
              = (eyeEmotion = "sad")

\* The eyes of surprised are drawn open while the avatar speaks and is
\* distracted.
C30_SurprisedWhileBusy ==
    /\ mounted /\ eyeEmotion = "surprised" /\ ~isBlinking
    /\ isDistracted /\ isSpeaking /\ visemeTimerRef.pending

\* C27: A step that changes isBlinking changes neither isDistracted nor the
\* offsets of the eye shine nor the timers of the distraction, and a step
\* that changes isDistracted changes neither isBlinking nor the timers of
\* the blink.
C27_BlinkAndDistractionCompose ==
    [][/\ isBlinking' # isBlinking
           => UNCHANGED <<isDistracted, gazeVars, distractionIntervalRef,
                          distractionOffTimer>>
       /\ isDistracted' # isDistracted
           => UNCHANGED <<isBlinking, blinkIntervalRef, blinkOffTimer>>]_vars

\* text is prev with the characters added inserted after its first k
\* characters.
InsertedAt(prev, text, k, added) ==
    /\ added # <<>>
    /\ text = SubSeq(prev, 1, k) \o added \o SubSeq(prev, k + 1, Len(prev))

\* C25: A text change that only adds characters to the value the textarea
\* had, at its end or in its middle, appends those characters, in their
\* order, to tokensToStreamRef, whatever changes came before.
C25_AddedCharactersEnqueued ==
    [][\A k \in 0..Len(inputText) :
          LET added == SubSeq(inputText', k + 1,
                              k + Len(inputText') - Len(inputText))
          IN  InsertedAt(inputText, inputText', k, added)
                  => \E j \in 0..Len(inputText) :
                        LET addedAtJ ==
                                SubSeq(inputText', j + 1,
                                       j + Len(inputText') - Len(inputText))
                        IN  /\ InsertedAt(inputText, inputText', j, addedAtJ)
                            /\ tokensToStreamRef'
                                 = tokensToStreamRef \o Split(addedAtJ)]_vars

\* The producer as handleReset leaves it.
ProducerCleared ==
    /\ ~isSpeaking
    /\ textChunks = <<>> /\ tokensToStreamRef = <<>>
    /\ currentTokenRef = 0 /\ lastTypedTextRef = <<>>
    /\ ~streamTimerRef.pending
    /\ ~typingTimeoutRef.pending /\ typingTimers = 0

\* C28: handleReset leaves isSpeaking false, textChunks and tokensToStreamRef
\* empty, currentTokenRef 0, lastTypedTextRef empty and neither the stream
\* timer nor an idle-detection timer pending; from such a state no step other
\* than a text change adds a token to textChunks or leaves the state.
C28_ResetClearsProducer ==
    /\ [][HandleReset => ProducerCleared']_vars
    /\ [][ProducerCleared /\ ~(\E text \in Texts : HandleTextChange(text))
            => ProducerCleared']_vars

\* The textarea is empty and the producer cleared, with the mouth at rest
\* and the cursor at 0, as after a reset of a running stream.
C28_ClearedAfterReset ==
    /\ ProducerCleared /\ inputText = <<>>
    /\ currentViseme = "X" /\ chunkIndex = 0 /\ visemeTimers = 0

\* C29: With time in milliseconds, a blink ends exactly 150 ms after it
\* started and cannot last longer; a blink starts at least 2000 ms and less
\* than 5000 ms after the mount or the end of the blink before, and the
\* pause cannot reach 5000 ms.  blinkClock measures each phase: it restarts
\* whenever isBlinking changes.
C29_BlinkTiming ==
    /\ [][isBlinking' # isBlinking => blinkClock' = 0]_vars
    /\ [][isBlinking /\ ~isBlinking' => blinkClock = 150]_vars
    /\ [][~isBlinking /\ isBlinking'
            => blinkClock >= 2000 /\ blinkClock < 5000]_vars
    /\ [](isBlinking => blinkClock <= 150)
    /\ [](~isBlinking => blinkClock < 5000)

\* A blink has lasted its 150 ms and is about to end.
C29_BlinkFullyElapsed ==
    mounted /\ isBlinking /\ blinkOffTimer /\ blinkClock = 150

\* The offsets of the eye shine are those of a distraction: the left one
\* lies in [0.22, 0.28) x eyeWidth and the right one in [0.20, 0.28) x
\* eyeWidth, both to the left.
GazeAside ==
    /\ 0 - leftEyeShineControls >= 22000 * eyeWidth
    /\ 0 - leftEyeShineControls < 28000 * eyeWidth
    /\ 0 - rightEyeShineControls >= 20000 * eyeWidth
    /\ 0 - rightEyeShineControls < 28000 * eyeWidth

GazeCentred == leftEyeShineControls = 0 /\ rightEyeShineControls = 0

\* C31: The step that sets isDistracted to true sets both offsets of the
\* eye shine within their ranges, and the step that sets it to false, 800 to
\* 1000 ms later, sets both back to 0; in between the offsets stay as set.
C31_DistractionAtomic ==
    /\ [][~isDistracted /\ isDistracted' => GazeCentred /\ GazeAside']_vars
    /\ [][isDistracted /\ ~isDistracted'
            => /\ GazeAside /\ GazeCentred'
               /\ distractionClock >= 800 /\ distractionClock <= 1000]_vars
    /\ [](isDistracted => GazeAside)

\* C32: The stream cursor of App stays in range: in every reachable state
\* currentToken is at least 0 and at most the number of queued tokens.
C32_CursorInRange ==
    currentTokenRef >= 0 /\ currentTokenRef <= Len(tokensToStreamRef)

\* Every queued token of a pasted text has been streamed and the stream
\* timer is pending again: the cursor stands at the end of the queue.
C32_CursorAtEnd ==
    /\ isSpeaking /\ streamTimerRef.pending
    /\ Len(tokensToStreamRef) > maxChunks
    /\ currentTokenRef = Len(tokensToStreamRef)

\* C33: The producer streams the queue in order, without loss or
\* duplication: in every reachable state textChunks is the last
\* min(20, currentToken) of the first currentToken queued tokens, so it
\* never holds more than 20.
C33_StreamedInOrder ==
    /\ textChunks = SliceLast(SubSeq(tokensToStreamRef, 1, currentTokenRef),
                              maxChunks)
    /\ Len(textChunks) <= maxChunks

\* More than 20 tokens of a pasted text have been streamed, so the oldest
\* ones have left textChunks, and the producer waits at the end of the queue.
C33_WindowOverLongQueue ==
    /\ isSpeaking /\ streamTimerRef.pending
    /\ currentTokenRef > maxChunks
    /\ currentTokenRef = Len(tokensToStreamRef)
    /\ Len(textChunks) = maxChunks
    /\ textChunks[1] = tokensToStreamRef[currentTokenRef - maxChunks + 1]

\* C34: Whenever isSpeaking is true the queue of App is non-empty and the
\* stream timer is pending; a call of streamNextToken never takes its last
\* branch, so a firing stream timer sets itself again and leaves isSpeaking
\* true, and only the idle timer or a reset sets isSpeaking to false.
C34_SpeakingHasTokens ==
    /\ [](isSpeaking => tokensToStreamRef # <<>> /\ streamTimerRef.pending)
    /\ [][StreamTimerFires => isSpeaking' /\ streamTimerRef'.pending]_vars
    /\ [][isSpeaking /\ ~isSpeaking'
            => TypingTimeoutFires \/ HandleReset]_vars

\* The only queued token was streamed at least two firings of the stream
\* timer ago: the timer has set itself again with nothing left to stream.
C34_WaitingAtEnd ==
    /\ isSpeaking /\ streamTimerRef.pending
    /\ Len(tokensToStreamRef) = 1 /\ currentTokenRef = 1
    /\ typingTimeoutRef.pending /\ typingTimeoutRef.age >= 2

\* C35: At most one stream timer of App is pending at any time, the one
\* streamTimerRef holds, and a stream timer is set only when none is
\* pending: a second chain of streamNextToken is never started beside a
\* pending one.
C35_OneStreamTimer ==
    /\ [](streamTimers <= 1)
    /\ [](streamTimers = 1 <=> streamTimerRef.pending)
    /\ [][streamTimers' > streamTimers => streamTimers = 0]_vars
    /\ [][(\E v \in Speeds : HandleSpeedChange(v))
            => streamTimers' = streamTimers
               /\ streamTimerRef' = streamTimerRef]_vars

\* The speed was changed while the stream timer was pending and the text
\* has grown since: the one pending timer is still that of the old speed.
C35_ChainAcrossSpeedChange ==
    /\ isSpeaking /\ streamTimers = 1 /\ streamTimerRef.pending
    /\ streamTimerRef.streamingSpeed # streamingSpeed
    /\ Len(tokensToStreamRef) > maxChunks
    /\ currentTokenRef < Len(tokensToStreamRef)
    /\ currentTokenRef > 0

C37_CursorOnShownToken ==
    /\ [][chunkIndex' # chunkIndex
            => \/ /\ chunkIndex' = chunkIndex + 1
                  /\ chunkIndex < Len(textChunks) - 1
                  /\ visemeTimerRef.pending
                  /\ UNCHANGED propVars
               \/ /\ chunkIndex' = 0
                  /\ textChunks' = <<>> \/ ~isSpeaking']_vars
    /\ [][(/\ chunkIndex < Len(textChunks)
              \/ (textChunks = <<>> /\ chunkIndex = 0)
           /\ IsAppend \/ textChunks' = textChunks)
            => chunkIndex' < Len(textChunks')
               \/ (textChunks' = <<>> /\ chunkIndex' = 0)]_vars

\* The ticks have moved the cursor to the last of the tokens, which is
\* shown with its tick pending.
C37_CursorOnLastToken ==
    /\ mounted /\ isSpeaking /\ visemeTimerRef.pending
    /\ Len(textChunks) = MaxLen /\ chunkIndex = MaxLen - 1
    /\ currentViseme = Resolve(textChunks[chunkIndex + 1])

----------------------------------------------------------------------------
(* The animators of src/unnamed/part_001 and src/unnamed/part_002: their   *)
(* speech and blink, as operators on the state of the blink and of the     *)
(* speech of AIAvatar.  They have no distraction.                          *)

BlinkState ==
    [isBlinking |-> isBlinking, blinkIntervalRef |-> blinkIntervalRef,
     blinkOffTimer |-> blinkOffTimer]

\* part_001: processChunks.  Its VISEME_MAP (lines 10-42) is the table of
\* Resolve.
Part001ProcessChunks(chunks, ci, cv) ==
    IF ci < Len(chunks)
    THEN [currentViseme |-> IF Len(chunks[ci + 1]) > 0
                            THEN Resolve(chunks[ci + 1])
                            ELSE cv,
          visemeTimerRef |-> VisemeTimer(ci, chunks)]
    ELSE [currentViseme |-> cv, visemeTimerRef |-> NoTimer]

\* part_001: the viseme effect, deps [textChunks, chunkIndex, isSpeaking].
Part001VisemeEffect(chunks, speaking, ci, cv) ==
    IF ~speaking \/ Len(chunks) = 0
    THEN [currentViseme |-> "X", visemeTimerRef |-> NoTimer]
    ELSE Part001ProcessChunks(chunks, ci, cv)

\* part_001: the isSpeaking effect, deps [isSpeaking].
Part001IsSpeakingEffect(speaking, cv) == IF ~speaking THEN "X" ELSE cv

\* Faulty variant of Part001ResetEffect: the cursor is reset only when the
\* buffer is empty and isSpeaking is false.
Part001ResetEffectStricter(chunks, speaking, ci) ==
    IF Len(chunks) = 0 /\ ~speaking THEN 0 ELSE ci

\* part_001: the chunk index reset effect, deps [textChunks, isSpeaking].
Part001ResetEffect(chunks, speaking, ci) ==
    IF Len(chunks) = 0 \/ ~speaking THEN 0 ELSE ci

\* part_001: one commit, its effects run in declaration order as in
\* RunEffects.
Part001RunEffects(chunks, speaking, s, tcChanged, spChanged, ciChanged) ==
    LET cv1 == IF spChanged
               THEN Part001IsSpeakingEffect(speaking, s.currentViseme)
               ELSE s.currentViseme
        run1 == tcChanged \/ ciChanged \/ spChanged
        v1  == IF run1
               THEN Part001VisemeEffect(chunks, speaking, s.chunkIndex, cv1)
               ELSE [currentViseme |-> cv1, visemeTimerRef |-> s.visemeTimerRef]
        n1  == IF run1
               THEN VisemeTimersAfter(v1, s.visemeTimerRef, s.visemeTimers)
               ELSE s.visemeTimers
        ci1 == IF tcChanged \/ spChanged
               THEN Part001ResetEffect(chunks, speaking, s.chunkIndex)
               ELSE s.chunkIndex
        v2  == IF ci1 # s.chunkIndex
               THEN Part001VisemeEffect(chunks, speaking, ci1, v1.currentViseme)
               ELSE v1
        n2  == IF ci1 # s.chunkIndex
               THEN VisemeTimersAfter(v2, v1.visemeTimerRef, n1)
               ELSE n1
    IN  [currentViseme |-> v2.currentViseme,
         chunkIndex |-> ci1,
         visemeTimerRef |-> v2.visemeTimerRef,
         visemeTimers |-> n2]

\* part_001: the callback of the 100 ms timer.
Part001TickResult(timer, chunks, speaking, s) ==
    IF timer.chunkIndex < timer.length - 1
    THEN Part001RunEffects(chunks, speaking,
                    [s EXCEPT !.chunkIndex = s.chunkIndex + 1,
                              !.visemeTimerRef = NoTimer,
                              !.visemeTimers = s.visemeTimers - 1],
                    FALSE, FALSE, TRUE)
    ELSE [s EXCEPT !.currentViseme = "X", !.visemeTimerRef = NoTimer,
                   !.visemeTimers = s.visemeTimers - 1]

\* part_001: the callback of the blink timer sets isBlinking and an untracked
\* 150 ms timer.
Part001BlinkTimer(b) ==
    [isBlinking |-> IF mounted THEN TRUE ELSE b.isBlinking,
     blinkIntervalRef |-> FALSE, blinkOffTimer |-> TRUE]

\* part_001: the callback of the 150 ms timer ends the blink and calls
\* scheduleNextBlink.
Part001BlinkOffTimer(b) ==
    [isBlinking |-> IF mounted THEN FALSE ELSE b.isBlinking,
     blinkIntervalRef |-> TRUE, blinkOffTimer |-> FALSE]

\* part_001: the cleanups run by an unmount clear the timers of
\* visemeTimerRef and blinkIntervalRef.
Part001Unmount(s, b) ==
    [avatar |-> [s EXCEPT !.visemeTimerRef = NoTimer,
                          !.visemeTimers =
                              clearTimeout(s.visemeTimerRef, s.visemeTimers)],
     blink |-> [b EXCEPT !.blinkIntervalRef = FALSE]]

\* part_002: processChunks.  Its VISEME_MAP (lines 10-42) is the table of
\* Resolve.
Part002ProcessChunks(chunks, ci, cv) ==
    IF ci < Len(chunks)
    THEN [currentViseme |-> IF Len(chunks[ci + 1]) > 0
                            THEN Resolve(chunks[ci + 1])
                            ELSE cv,
          visemeTimerRef |-> VisemeTimer(ci, chunks)]
    ELSE [currentViseme |-> cv, visemeTimerRef |-> NoTimer]

\* part_002: the viseme effect, deps [textChunks, chunkIndex, isSpeaking].
Part002VisemeEffect(chunks, speaking, ci, cv) ==
    IF ~speaking \/ Len(chunks) = 0
    THEN [currentViseme |-> "X", visemeTimerRef |-> NoTimer]
    ELSE Part002ProcessChunks(chunks, ci, cv)

\* part_002: the isSpeaking effect, deps [isSpeaking].
Part002IsSpeakingEffect(speaking, cv) == IF ~speaking THEN "X" ELSE cv

\* part_002: the chunk index reset effect, deps [textChunks, isSpeaking].
Part002ResetEffect(chunks, speaking, ci) ==
    IF Len(chunks) = 0 \/ ~speaking THEN 0 ELSE ci

\* part_002: one commit, its effects run in declaration order as in
\* RunEffects.
Part002RunEffects(chunks, speaking, s, tcChanged, spChanged, ciChanged) ==
    LET cv1 == IF spChanged
               THEN Part002IsSpeakingEffect(speaking, s.currentViseme)
               ELSE s.currentViseme
        run1 == tcChanged \/ ciChanged \/ spChanged
        v1  == IF run1
               THEN Part002VisemeEffect(chunks, speaking, s.chunkIndex, cv1)
               ELSE [currentViseme |-> cv1, visemeTimerRef |-> s.visemeTimerRef]
        n1  == IF run1
               THEN VisemeTimersAfter(v1, s.visemeTimerRef, s.visemeTimers)
               ELSE s.visemeTimers
        ci1 == IF tcChanged \/ spChanged
               THEN Part002ResetEffect(chunks, speaking, s.chunkIndex)
               ELSE s.chunkIndex
        v2  == IF ci1 # s.chunkIndex
               THEN Part002VisemeEffect(chunks, speaking, ci1, v1.currentViseme)
               ELSE v1
        n2  == IF ci1 # s.chunkIndex
               THEN VisemeTimersAfter(v2, v1.visemeTimerRef, n1)
               ELSE n1
    IN  [currentViseme |-> v2.currentViseme,
         chunkIndex |-> ci1,
         visemeTimerRef |-> v2.visemeTimerRef,
         visemeTimers |-> n2]

\* part_002: the callback of the 100 ms timer.
Part002TickResult(timer, chunks, speaking, s) ==
    IF timer.chunkIndex < timer.length - 1
    THEN Part002RunEffects(chunks, speaking,
                    [s EXCEPT !.chunkIndex = s.chunkIndex + 1,
                              !.visemeTimerRef = NoTimer,
                              !.visemeTimers = s.visemeTimers - 1],
                    FALSE, FALSE, TRUE)
    ELSE [s EXCEPT !.currentViseme = "X", !.visemeTimerRef = NoTimer,
                   !.visemeTimers = s.visemeTimers - 1]

\* part_002: the callback of the blink timer sets isBlinking and an untracked
\* 150 ms timer.
Part002BlinkTimer(b) ==
    [isBlinking |-> IF mounted THEN TRUE ELSE b.isBlinking,
     blinkIntervalRef |-> FALSE, blinkOffTimer |-> TRUE]

\* part_002: the callback of the 150 ms timer ends the blink and calls
\* scheduleNextBlink.
Part002BlinkOffTimer(b) ==
    [isBlinking |-> IF mounted THEN FALSE ELSE b.isBlinking,
     blinkIntervalRef |-> TRUE, blinkOffTimer |-> FALSE]

\* part_002: the cleanups run by an unmount clear the timers of
\* visemeTimerRef and blinkIntervalRef.
Part002Unmount(s, b) ==
    [avatar |-> [s EXCEPT !.visemeTimerRef = NoTimer,
                          !.visemeTimers =
                              clearTimeout(s.visemeTimerRef, s.visemeTimers)],
     blink |-> [b EXCEPT !.blinkIntervalRef = FALSE]]

\* A step of AIAvatar.tsx is the step the animators of part_001 and
\* part_002 take from the same state on the same event, and an event they
\* do not have changes nothing of their state.
VariantsInStep ==
    /\ SetTextChunks(textChunks')
       => /\ AvatarState' = Part001RunEffects(textChunks', isSpeaking,
                                 AvatarState, TRUE, FALSE, FALSE)
          /\ AvatarState' = Part002RunEffects(textChunks', isSpeaking,
                                 AvatarState, TRUE, FALSE, FALSE)
    /\ SetIsSpeaking(isSpeaking')
       => /\ AvatarState' = Part001RunEffects(textChunks, isSpeaking',
                                 AvatarState, FALSE, TRUE, FALSE)
          /\ AvatarState' = Part002RunEffects(textChunks, isSpeaking',
                                 AvatarState, FALSE, TRUE, FALSE)
    /\ SetProps(textChunks', isSpeaking')
       => /\ AvatarState' = Part001RunEffects(textChunks', isSpeaking',
                                 AvatarState, TRUE, TRUE, FALSE)
          /\ AvatarState' = Part002RunEffects(textChunks', isSpeaking',
                                 AvatarState, TRUE, TRUE, FALSE)
    /\ SpeechTick
       => /\ AvatarState' = Part001TickResult(visemeTimerRef,
                                 textChunks, isSpeaking, AvatarState)
          /\ AvatarState' = Part002TickResult(visemeTimerRef,
                                 textChunks, isSpeaking, AvatarState)
    /\ BlinkTimerFires
       => /\ BlinkState' = Part001BlinkTimer(BlinkState)
          /\ BlinkState' = Part002BlinkTimer(BlinkState)
    /\ BlinkOffTimerFires
       => /\ BlinkState' = Part001BlinkOffTimer(BlinkState)
          /\ BlinkState' = Part002BlinkOffTimer(BlinkState)
    /\ Unmount
       => /\ [avatar |-> AvatarState', blink |-> BlinkState']
                 = Part001Unmount(AvatarState, BlinkState)
          /\ [avatar |-> AvatarState', blink |-> BlinkState']
                 = Part002Unmount(AvatarState, BlinkState)
    /\ (\/ SetTextChunks(textChunks') \/ SetIsSpeaking(isSpeaking')
        \/ SetProps(textChunks', isSpeaking') \/ SpeechTick)
       => BlinkState' = BlinkState
    /\ BlinkTimerFires \/ BlinkOffTimerFires
       => AvatarState' = AvatarState
    /\ (\/ DistractionTimerFires \/ DistractionOffTimerFires
        \/ SetEyeEmotion(eyeEmotion'))
       => AvatarState' = AvatarState /\ BlinkState' = BlinkState

\* C38: The animators of part_001, part_002 and AIAvatar.tsx are equivalent
\* on speech and blink: from the same state every change of props and
\* every firing of a speech or blink timer leaves each of them the same
\* currentViseme, chunkIndex and isBlinking (and the same timers), the
\* distraction of AIAvatar.tsx, which the others lack, changes none of
\* the three, and the three reset the cursor under the same condition,
\* textChunks empty or isSpeaking false.
C38_VariantsEquivalent ==
    /\ [][VariantsInStep]_vars
    /\ [](\A chunks \in ChunkSeqs, speaking \in BOOLEAN, ci \in 0..MaxLen :
             LET reset == IF chunks = <<>> \/ ~speaking THEN 0 ELSE ci
             IN  /\ ResetEffect(chunks, speaking, ci) = reset
                 /\ Part001ResetEffect(chunks, speaking, ci) = reset
                 /\ Part002ResetEffect(chunks, speaking, ci) = reset)

\* AIAvatar.tsx is in a distraction, which the other animators do not have,
\* during a blink and with the cursor moved on to the last token.
C38_DistractedWhileSpeakingAndBlinking ==
    /\ mounted /\ isDistracted /\ isBlinking /\ blinkOffTimer
    /\ isSpeaking /\ visemeTimerRef.pending
    /\ Len(textChunks) = MaxLen /\ chunkIndex = MaxLen - 1
====
